---- MODULE Spec2Model ----
(***************************************************************************)
(* Model of the class clustering_algorithms of OpenEnsembles               *)
(* (clustering_algorithms.py): a facade that merges per-algorithm default  *)
(* parameters with the caller's keyword dictionary, calls the scikit-learn *)
(* routine and stores the labels (out) and the parameters used            *)
(* (var_params).                                                           *)
(*                                                                         *)
(* Python values are written as the string of their repr: "10" is the int  *)
(* 10, "'auto'" the str 'auto', "(30,)" the one-element tuple holding 30.  *)
(* A dict is a function from key names to such strings.                    *)
(***************************************************************************)
EXTENDS Integers, Sequences, FiniteSets, TLC

VARIABLES data, K, var_params, out,
          kwargs, lastOp, calls, fitArgs, labels_, methodDict,
          th, ncalls, overlapped, outWriter, paramsWriter

facade == <<data, K, var_params, out>>
serialHist == <<lastOp, calls, fitArgs, labels_, methodDict>>
threadState == <<th, ncalls, overlapped, outWriter, paramsWriter>>
vars == <<data, K, var_params, out, kwargs, lastOp, calls, fitArgs, labels_, methodDict,
          th, ncalls, overlapped, outWriter, paramsWriter>>

----------------------------------------------------------------------------
(* Bounds of the model *)

MaxOverlaySize == 2
MaxK == 2
MaxCalls == 2

(* def __init__(self, data, kwargs, K=2) *)
DefaultK == 2

(* Keys and values the caller's keyword dictionary is drawn from: keys     *)
(* recognised by one algorithm, by two algorithms, and by none.            *)
OverlayKeys == {"n_init", "affinity", "linkage", "leaf_size", "bogus"}
OverlayValues == {"5", "'precomputed'"}

(* The datasets a facade is constructed with: rows, named *)
Datasets == {<<"x1">>}

Threads == {1, 2}

Algorithms == {"kmeans", "spectral", "agglomerative", "DBSCAN"}

EmptyDict == [k \in {} |-> ""]

Overlays ==
    UNION { [S -> OverlayValues] :
            S \in {T \in SUBSET OverlayKeys : Cardinality(T) <= MaxOverlaySize} }

----------------------------------------------------------------------------
(* Default parameters of each algorithm *)

KMeansDefaults ==
    [init |-> "'k-means++'", n_init |-> "10", max_iter |-> "300", tol |-> "0.0001",
     precompute_distances |-> "'auto'", verbose |-> "0", random_state |-> "None",
     copy_x |-> "True", n_jobs |-> "1"]

SpectralDefaults ==
    [eigen_solver |-> "None", random_state |-> "None", n_init |-> "10", gamma |-> "1.0",
     affinity |-> "'rbf'", n_neighbors |-> "10", eigen_tol |-> "'0.0'",
     assign_labels |-> "'kmeans'", degree |-> "3", coef0 |-> "1", kernel_params |-> "None"]

AgglomerativeDefaults ==
    [affinity |-> "'euclidean'", connectivity |-> "None", n_components |-> "None",
     compute_full_tree |-> "'auto'", linkage |-> "'ward'", pooling_func |-> "np.mean"]

(* lines 166 and 167 end in a comma: the values are one-element tuples *)
DBSCANDefaults ==
    [eps |-> "0.5", min_samples |-> "5", metric |-> "'euclidean'", algorithm |-> "'auto'",
     leaf_size |-> "(30,)", p |-> "(None,)", random_state |-> "None"]

Defaults(alg) ==
    CASE alg = "kmeans" -> KMeansDefaults
      [] alg = "spectral" -> SpectralDefaults
      [] alg = "agglomerative" -> AgglomerativeDefaults
      [] alg = "DBSCAN" -> DBSCANDefaults

(* overlap = set(params.keys()) & set(self.var_params.keys()) *)
Overlap(params, overlay) == (DOMAIN params) \cap (DOMAIN overlay)

(* Variant: the loop body never runs, the defaults stay *)
MergeKeepsDefaults(params, overlay) == params

(* Variant: params.update(self.var_params), every key of the overlay is copied *)
MergeUpdate(params, overlay) ==
    [k \in (DOMAIN params) \cup (DOMAIN overlay) |->
        IF k \in DOMAIN overlay THEN overlay[k] ELSE params[k]]

(* for key in overlap: params[key] = self.var_params[key] *)
Merge(params, overlay) ==
    [k \in DOMAIN params |->
        IF k \in Overlap(params, overlay) THEN overlay[k] ELSE params[k]]

(* The names of the keyword arguments each routine is called with, besides *)
(* n_clusters.                                                              *)
PassedOptions(alg) ==
    CASE alg = "kmeans" ->
            {"init", "n_init", "max_iter", "tol", "precompute_distances", "verbose",
             "random_state", "copy_x", "n_jobs"}
      [] alg = "spectral" ->
            {"n_neighbors", "gamma", "eigen_solver", "random_state", "n_init",
             "affinity", "coef0", "kernel_params", "eigen_tol", "assign_labels"}
      [] alg = "agglomerative" ->
            {"affinity", "connectivity", "n_components", "compute_full_tree",
             "linkage", "pooling_func"}
      [] alg = "DBSCAN" ->
            {"eps", "min_samples", "metric", "algorithm", "leaf_size", "p", "random_state"}

(* Whether the routine is called with n_clusters=self.K *)
PassesK(alg) == alg \in {"kmeans", "spectral", "agglomerative"}

(* The call of the scikit-learn constructor: its keyword arguments *)
CallArgs(alg, params) ==
    [n_clusters |-> IF PassesK(alg) THEN {K} ELSE {},
     options |-> [k \in PassedOptions(alg) |-> params[k]]]

NoCall == [n_clusters |-> {}, options |-> EmptyDict]

(* solution.labels_ after a successful fit: one label per item of data;    *)
(* DBSCAN labels noise -1.                                                  *)
Labels(alg) ==
    [1..Len(data) -> IF alg = "DBSCAN" THEN -1..(Len(data) - 1) ELSE 0..(K - 1)]

(* self.out after the call: assigned only when fit returned *)
NextOut(ok, labels) == IF ok THEN labels ELSE out

(* Variant: self.var_params = params is executed before the routine is called *)
NextVarParamsEarly(ok, params) == params

(* Variant: self.var_params.update(params), the old keys stay *)
NextVarParamsUpdate(ok, params) ==
    IF ok
    THEN [k \in (DOMAIN params) \cup (DOMAIN var_params) |->
            IF k \in DOMAIN params THEN params[k] ELSE var_params[k]]
    ELSE var_params

(* self.var_params after the call: assigned only when fit returned *)
NextVarParams(ok, params) == IF ok THEN params ELSE var_params

(* The two most recent invocations, oldest first *)
Record(alg, ok) ==
    LET r == [alg |-> alg, raised |-> ~ok]
    IN IF Len(calls) < 2 THEN Append(calls, r) ELSE <<calls[2], r>>

----------------------------------------------------------------------------
(* Attribute names, as sequences of characters *)

N_data == <<"d","a","t","a">>
N_out == <<"o","u","t">>
N_var_params == <<"v","a","r","_","p","a","r","a","m","s">>
N_K == <<"K">>
N_init == <<"_","_","i","n","i","t","_","_">>
N_doc == <<"_","_","d","o","c","_","_">>
N_module == <<"_","_","m","o","d","u","l","e","_","_">>
N_class == <<"_","_","c","l","a","s","s","_","_">>
N_available == <<"c","l","u","s","t","e","r","i","n","g","_","a","l","g","o","r","i","t","h","m","s",
                 "_","a","v","a","i","l","a","b","l","e">>
N_kmeans == <<"k","m","e","a","n","s">>
N_spectral == <<"s","p","e","c","t","r","a","l">>
N_agglomerative == <<"a","g","g","l","o","m","e","r","a","t","i","v","e">>
N_DBSCAN == <<"D","B","S","C","A","N">>

(* dir(self) *)
Dir ==
    {N_data, N_out, N_var_params, N_K, N_init, N_doc, N_module, N_class,
     N_available, N_kmeans, N_spectral, N_agglomerative, N_DBSCAN}

(* callable(getattr(self, method)) *)
Callable(name) ==
    name \in {N_init, N_class, N_available, N_kmeans, N_spectral, N_agglomerative, N_DBSCAN}

(* re.match('__', method): the pattern matches at the start of the name *)
MatchDunder(name) == Len(name) >= 2 /\ name[1] = "_" /\ name[2] = "_"

(* Variant: methods.remove('clustering_algorithms_available') is missing *)
AvailableDictWithSelf ==
    LET methods == {m \in Dir : Callable(m)}
    IN [m \in {x \in methods : ~MatchDunder(x)} |-> ""]

(* The value clustering_algorithms_available returns *)
AvailableDict ==
    LET methods == {m \in Dir : Callable(m)} \ {N_available}
    IN [m \in {x \in methods : ~MatchDunder(x)} |-> ""]

----------------------------------------------------------------------------
(* Construction: clustering_algorithms(data, kwargs, K) *)

IdleThread == [pc |-> "idle", alg |-> "none", params |-> EmptyDict, overlap |-> {},
               labels |-> <<>>, id |-> 0]

(* The call that assigned a field: none after construction *)
NoWriter == [id |-> 0, alg |-> "none"]

Init ==
    /\ data \in Datasets
    /\ K \in 1..MaxK
    /\ kwargs \in Overlays
    /\ var_params = kwargs
    /\ out = <<>>
    /\ lastOp = "__init__"
    /\ calls = <<>>
    /\ fitArgs = NoCall
    /\ labels_ = <<>>
    /\ methodDict = EmptyDict
    /\ th = [t \in Threads |-> IdleThread]
    /\ ncalls = 0
    /\ overlapped = FALSE
    /\ outWriter = NoWriter
    /\ paramsWriter = NoWriter

----------------------------------------------------------------------------
(* Serialized calls: each method runs to completion *)

Invoke(alg) ==
    LET params == Merge(Defaults(alg), var_params)
    IN \E ok \in BOOLEAN : \E labels \in (IF ok THEN Labels(alg) ELSE {<<>>}) :
        /\ fitArgs' = CallArgs(alg, params)
        /\ labels_' = labels
        /\ out' = NextOut(ok, labels)
        /\ var_params' = NextVarParams(ok, params)
        /\ lastOp' = alg
        /\ calls' = Record(alg, ok)
        /\ methodDict' = EmptyDict
        /\ UNCHANGED <<data, K, kwargs>>
        /\ UNCHANGED threadState

kmeans == Invoke("kmeans")

spectral == Invoke("spectral")

agglomerative == Invoke("agglomerative")

DBSCAN == Invoke("DBSCAN")

clustering_algorithms_available ==
    /\ methodDict' = AvailableDict
    /\ lastOp' = "clustering_algorithms_available"
    /\ UNCHANGED <<data, K, var_params, out, kwargs, calls, fitArgs, labels_>>
    /\ UNCHANGED threadState

Next ==
    \/ kmeans
    \/ spectral
    \/ agglomerative
    \/ DBSCAN
    \/ clustering_algorithms_available

Spec == Init /\ [][Next]_vars

----------------------------------------------------------------------------
(* Calls from several threads on one facade: the statements of a method    *)
(* interleave with those of the other thread.  Each call gets an id; out   *)
(* and var_params remember the id of the call that assigned them.          *)

Busy(t) == th[t].pc # "idle"

(* params = {...}; overlap = set(params.keys()) & set(self.var_params.keys()) *)
BeginCall(t, alg) ==
    /\ ~Busy(t)
    /\ ncalls < MaxCalls
    /\ ncalls' = ncalls + 1
    /\ overlapped' = (overlapped \/ \E u \in Threads \ {t} : Busy(u))
    /\ th' = [th EXCEPT ![t] =
                [pc |-> "loop", alg |-> alg, params |-> Defaults(alg),
                 overlap |-> Overlap(Defaults(alg), var_params),
                 labels |-> <<>>, id |-> ncalls + 1]]
    /\ UNCHANGED <<facade, kwargs, serialHist, outWriter, paramsWriter>>

(* The thread left the method, by return or by an exception: its locals    *)
(* are gone                                                                 *)
Returned(t) == IdleThread

Call(t) == [id |-> th[t].id, alg |-> th[t].alg]

(* The key the loop takes next.  Python iterates a set in the order of its *)
(* hash table, a fixed function of the set's elements within one process;  *)
(* the model takes one such function.                                      *)
NextKey(overlap) == CHOOSE key \in overlap : TRUE

(* One iteration of the loop: params[key] = self.var_params[key]; the key  *)
(* is looked up in the dictionary self.var_params names now, and a key it   *)
(* lacks raises KeyError.                                                   *)
MergeKey(t) ==
    /\ th[t].pc = "loop"
    /\ th[t].overlap # {}
    /\ LET key == NextKey(th[t].overlap)
       IN th' = [th EXCEPT ![t] =
                IF key \in DOMAIN var_params
                THEN [@ EXCEPT !.params = [@ EXCEPT ![key] = var_params[key]],
                               !.overlap = @ \ {key}]
                ELSE Returned(t)]
    /\ UNCHANGED <<facade, kwargs, serialHist, ncalls, overlapped, outWriter, paramsWriter>>

(* The pc after solution.fit(self.data) *)
AfterFit(ok) == IF ok THEN "storeOut" ELSE "idle"

(* solution = skc...(...); solution.fit(self.data) *)
Fit(t) ==
    /\ th[t].pc = "loop"
    /\ th[t].overlap = {}
    /\ \E ok \in BOOLEAN : \E labels \in (IF ok THEN Labels(th[t].alg) ELSE {<<>>}) :
        th' = [th EXCEPT ![t] =
                IF AfterFit(ok) = "idle" THEN Returned(t)
                ELSE [@ EXCEPT !.pc = AfterFit(ok), !.labels = labels]]
    /\ UNCHANGED <<facade, kwargs, serialHist, ncalls, overlapped, outWriter, paramsWriter>>

(* Variant: the method ends after self.out = solution.labels_ *)
AfterStoreOutReturns == "idle"

(* The pc after self.out = solution.labels_ *)
AfterStoreOut == "storeParams"

(* self.out = solution.labels_ *)
StoreOut(t) ==
    /\ th[t].pc = "storeOut"
    /\ out' = th[t].labels
    /\ outWriter' = Call(t)
    /\ th' = [th EXCEPT ![t] =
                IF AfterStoreOut = "idle" THEN Returned(t)
                ELSE [@ EXCEPT !.pc = AfterStoreOut]]
    /\ UNCHANGED <<data, K, var_params, kwargs, serialHist, ncalls, overlapped, paramsWriter>>

(* self.var_params = params *)
StoreParams(t) ==
    /\ th[t].pc = "storeParams"
    /\ var_params' = th[t].params
    /\ paramsWriter' = Call(t)
    /\ th' = [th EXCEPT ![t] = Returned(t)]
    /\ UNCHANGED <<data, K, out, kwargs, serialHist, ncalls, overlapped, outWriter>>

NextConc ==
    \/ \E t \in Threads : \E alg \in Algorithms : BeginCall(t, alg)
    \/ \E t \in Threads : MergeKey(t)
    \/ \E t \in Threads : Fit(t)
    \/ \E t \in Threads : StoreOut(t)
    \/ \E t \in Threads : StoreParams(t)

(* The facade the threads share is constructed with the default K *)
InitConc == Init /\ K = DefaultK

SpecConc == InitConc /\ [][NextConc]_vars

----------------------------------------------------------------------------
(* Properties of serialized calls *)

LastCall == calls[Len(calls)]

Invoked == Len(calls) > 0

FirstCallReturned == Len(calls) = 1 /\ ~calls[1].raised

Without(d, key) == [k \in (DOMAIN d) \ {key} |-> d[k]]

(* The overlay a method consults: it reads self.var_params *)
ConsultedOverlay == var_params

(* The documented defaults: the table of recognised options *)
DocumentedDefaults(alg) ==
    CASE alg = "kmeans" ->
            [init |-> "'k-means++'", n_init |-> "10", max_iter |-> "300", tol |-> "0.0001",
             precompute_distances |-> "'auto'", verbose |-> "0", random_state |-> "None",
             copy_x |-> "True", n_jobs |-> "1"]
      [] alg = "spectral" ->
            [eigen_solver |-> "None", random_state |-> "None", n_init |-> "10",
             gamma |-> "1.0", affinity |-> "'rbf'", n_neighbors |-> "10",
             eigen_tol |-> "'0.0'", assign_labels |-> "'kmeans'", degree |-> "3",
             coef0 |-> "1", kernel_params |-> "None"]
      [] alg = "agglomerative" ->
            [affinity |-> "'euclidean'", connectivity |-> "None", n_components |-> "None",
             compute_full_tree |-> "'auto'", linkage |-> "'ward'",
             pooling_func |-> "np.mean"]
      [] alg = "DBSCAN" ->
            [eps |-> "0.5", min_samples |-> "5", metric |-> "'euclidean'",
             algorithm |-> "'auto'", leaf_size |-> "30", p |-> "None",
             random_state |-> "None"]

(* C1: after a returned call of A followed by a returned call of a         *)
(* different algorithm B, var_params is B's defaults overlaid with the      *)
(* construction-time dictionary only, and out is the labels of B's call.    *)
C1_ReplacedNotMerged ==
    (Len(calls) = 2 /\ ~calls[1].raised /\ ~calls[2].raised
        /\ calls[1].alg # calls[2].alg)
    => /\ var_params = Merge(Defaults(calls[2].alg), kwargs)
       /\ out = labels_

(* C2: after a returned first call of A, every recognised name the          *)
(* construction-time dictionary maps has the caller's value, and every      *)
(* other recognised name has A's default.                                   *)
C2_OverrideWins ==
    FirstCallReturned =>
        \A k \in DOMAIN Defaults(calls[1].alg) :
            /\ k \in DOMAIN var_params
            /\ var_params[k] = IF k \in DOMAIN kwargs THEN kwargs[k]
                               ELSE Defaults(calls[1].alg)[k]

C2_Witness ==
    /\ FirstCallReturned
    /\ \E k \in (DOMAIN kwargs) \cap (DOMAIN Defaults(calls[1].alg)) :
            /\ kwargs[k] # Defaults(calls[1].alg)[k]
            /\ var_params[k] = kwargs[k]
    /\ \E k \in (DOMAIN Defaults(calls[1].alg)) \ (DOMAIN kwargs) :
            var_params[k] = Defaults(calls[1].alg)[k]

(* C3: a key of the construction-time dictionary that the algorithm does    *)
(* not recognise changes nothing: the first call stores what it stores      *)
(* when the dictionary lacks that key.                                      *)
C3_UnrecognizedIgnored ==
    FirstCallReturned =>
        \A k \in (DOMAIN kwargs) \ (DOMAIN Defaults(calls[1].alg)) :
            var_params = Merge(Defaults(calls[1].alg), Without(kwargs, k))

C3_Witness ==
    /\ FirstCallReturned
    /\ (DOMAIN kwargs) \ (DOMAIN Defaults(calls[1].alg)) # {}
    /\ (DOMAIN kwargs) \cap (DOMAIN Defaults(calls[1].alg)) # {}
    /\ var_params # kwargs

(* C4: with an empty construction-time dictionary the first call stores     *)
(* exactly the documented defaults, every value a plain scalar.             *)
C4_DocumentedDefaults ==
    (FirstCallReturned /\ kwargs = EmptyDict)
    => var_params = DocumentedDefaults(calls[1].alg)

(* C5: the routine is called with n_clusters=K and with every name/value    *)
(* pair of the merged options, which are the options recorded.              *)
C5_AllOptionsPassed ==
    (lastOp \in Algorithms /\ ~LastCall.raised)
    => /\ fitArgs.n_clusters = {K}
       /\ fitArgs.options = var_params

(* C6: a call in which the routine fails stores nothing: out and            *)
(* var_params are what they were before the call.                           *)
C6_FailureStoresNothing ==
    [][(lastOp' \in Algorithms /\ calls'[Len(calls')].raised)
        => (out' = out /\ var_params' = var_params)]_vars

C6_Witness ==
    /\ lastOp \in Algorithms
    /\ Len(calls) = 2
    /\ ~calls[1].raised
    /\ calls[2].raised
    /\ calls[1].alg # calls[2].alg
    /\ out # <<>>
    /\ DOMAIN var_params = DOMAIN Defaults(calls[1].alg)

(* C7: the overlay the next call consults is always the dictionary          *)
(* supplied at construction.                                                *)
C7_OverlayReadOnly == ConsultedOverlay = kwargs

(* C8: after a returned call the keys of var_params are exactly the         *)
(* recognised names of the algorithm called last.                           *)
C8_KeysAreRecognized ==
    (Invoked /\ ~LastCall.raised)
    => DOMAIN var_params = DOMAIN Defaults(LastCall.alg)

C8_Witness ==
    /\ Len(calls) = 2
    /\ ~calls[1].raised
    /\ ~calls[2].raised
    /\ calls[1].alg # calls[2].alg
    /\ (DOMAIN kwargs) \ (DOMAIN Defaults(calls[2].alg)) # {}
    /\ (DOMAIN kwargs) \cap (DOMAIN Defaults(calls[2].alg)) # {}
    /\ DOMAIN var_params = DOMAIN Defaults(calls[2].alg)

ExpectedAvailable ==
    [m \in {N_kmeans, N_spectral, N_agglomerative, N_DBSCAN} |-> ""]

(* C9: in every state clustering_algorithms_available returns the four      *)
(* algorithm names, each mapped to '', and changes nothing of the facade.   *)
C9_Discovery ==
    [][lastOp' = "clustering_algorithms_available"
        => /\ methodDict' = ExpectedAvailable
           /\ data' = data /\ K' = K /\ var_params' = var_params /\ out' = out]_vars

C9_Witness ==
    /\ lastOp = "clustering_algorithms_available"
    /\ methodDict = ExpectedAvailable
    /\ Len(calls) = 2
    /\ ~calls[2].raised
    /\ out # <<>>

----------------------------------------------------------------------------
(* Properties of interleaved calls *)

AllIdle == \A t \in Threads : ~Busy(t)

(* C10: when the calls were serialized and none is in progress, out and     *)
(* var_params were assigned by the same call (or by none); interleaved      *)
(* calls of different algorithms can end with out assigned by one call and  *)
(* var_params by the other.                                                 *)
C10_SerializedPairing ==
    (AllIdle /\ ~overlapped) => outWriter = paramsWriter

C10_Witness ==
    /\ AllIdle
    /\ overlapped
    /\ ncalls = 2
    /\ outWriter.id # 0
    /\ paramsWriter.id # 0
    /\ outWriter.id # paramsWriter.id
    /\ outWriter.alg # paramsWriter.alg
    /\ DOMAIN var_params = DOMAIN Defaults(paramsWriter.alg)

====
